---- MODULE Spec2Model ----
(***************************************************************************)
(* Model of explorer-api (src/index.js): an express server over one JSON   *)
(* file (db.json).  Every route handler is one synchronous JavaScript      *)
(* function: readDB and writeDB use the *Sync fs calls, so a handler runs  *)
(* from its first statement to its response without yielding to the event  *)
(* loop.  One action of the model is therefore one whole handler.          *)
(*                                                                         *)
(* JavaScript strings that the code inspects character by character        *)
(* (toLowerCase, includes, parseInt) are sequences of one-character        *)
(* strings; strings that are only stored, compared or concatenated are     *)
(* TLA+ strings.  A request parameter is undefined or Val(v).              *)
(***************************************************************************)
EXTENDS Integers, Sequences, FiniteSets, Bags, TLC

VARIABLES
    file,        \* db.json: [exists |-> FALSE] or [exists |-> TRUE, doc |-> ...]
    resp,        \* the response of the last handled request (with its request)
    writes,      \* number of writeDB calls made by handlers so far
    okLikes,     \* history: successful POST /like responses per <<type, id>>
    okFeedback,  \* history: number of successful POST /feedback responses
    created,     \* history: articles created by POST /admin/news, oldest first
    pending,     \* requests received (body parsed) whose handler has not run yet
    overlapped   \* history: <<type, id>> that had two likes in flight together

vars == <<file, resp, writes, okLikes, okFeedback, created, pending, overlapped>>

----------------------------------------------------------------------------
\* Bounds of the model.

MaxWrites == 2        \* writeDB calls by handlers in one behaviour
MaxItems == 6         \* longest list handed to paginate on its own
MaxPage == 4          \* largest in-range page handed to paginate on its own
MaxPending == 2       \* requests in flight at the same time

----------------------------------------------------------------------------
\* JavaScript values.

undefined == [given |-> FALSE]
Val(v) == [given |-> TRUE, v |-> v]
null == [isNull |-> TRUE]

\* Values a like counter slot can hold or a property read can yield.
Num(n) == [num |-> n]
Str(s) == [str |-> s]
Fn(name) == [fn |-> name]
ObjectPrototype == [obj |-> "Object.prototype"]
Undef == [undef |-> TRUE]

IsNum(v) == DOMAIN v = {"num"}
IsStr(v) == DOMAIN v = {"str"}

\* !x for a parameter holding a TLA+ string / a character sequence.
Falsy(p) == ~p.given \/ p.v = ""
FalsySeq(p) == ~p.given \/ p.v = <<>>

\* JavaScript truthiness of a property value.
Truthy(v) ==
    IF IsNum(v) THEN v.num # 0
    ELSE IF IsStr(v) THEN v.str # ""
    ELSE DOMAIN v # {"undef"}

\* Properties every plain object inherits from Object.prototype (a sample).
ProtoKeys == {"constructor", "__proto__"}

\* obj[k] on a plain object: own property first, then the prototype chain.
Get(obj, k) ==
    IF k \in DOMAIN obj THEN obj[k]
    ELSE IF k = "__proto__" THEN ObjectPrototype
    ELSE IF k = "constructor" THEN Fn("Object")
    ELSE Undef

\* obj[k] = v on a plain object.  Assigning a primitive to __proto__ is
\* ignored by the accessor; any other key becomes an own property.
Put_replacesAll(obj, k, v) ==
    IF k = "__proto__" THEN obj ELSE [x \in {k} |-> v]

Put(obj, k, v) ==
    IF k = "__proto__" THEN obj
    ELSE [x \in DOMAIN obj \cup {k} |-> IF x = k THEN v ELSE obj[x]]

\* v + 1 for a truthy v or for 0: numeric addition for a number, string
\* concatenation once v is a string, a function or an object.
PlusOne(v) ==
    IF IsNum(v) THEN Num(v.num + 1)
    ELSE IF IsStr(v) THEN Str(v.str \o "1")
    ELSE IF DOMAIN v = {"fn"}
         THEN Str("function " \o v.fn \o "() { [native code] }1")
    ELSE Str("[object Object]1")

----------------------------------------------------------------------------
\* Text: toLowerCase, includes, parseInt.

Upper == <<"A","B","C","D","E","F","G","H","I","J","K","L","M",
           "N","O","P","Q","R","S","T","U","V","W","X","Y","Z">>
Lower == <<"a","b","c","d","e","f","g","h","i","j","k","l","m",
           "n","o","p","q","r","s","t","u","v","w","x","y","z">>
Digits == <<"0","1","2","3","4","5","6","7","8","9">>

LowerChar(c) ==
    IF \E i \in 1..Len(Upper) : Upper[i] = c
    THEN Lower[CHOOSE i \in 1..Len(Upper) : Upper[i] = c]
    ELSE c

toLowerCase(s) == [i \in 1..Len(s) |-> LowerChar(s[i])]

includes(s, sub) ==
    \E i \in 0..(Len(s) - Len(sub)) : SubSeq(s, i + 1, i + Len(sub)) = sub

IsDigit(c) == \E d \in 1..10 : Digits[d] = c
DigitVal(c) == (CHOOSE d \in 1..10 : Digits[d] = c) - 1

NaN == [nan |-> TRUE]
Number(n) == [nan |-> FALSE, n |-> n]

RECURSIVE SkipWhite(_)
SkipWhite(s) ==
    IF s # <<>> /\ Head(s) = " " THEN SkipWhite(Tail(s)) ELSE s

\* The value of the longest prefix of digits of s, after acc.
RECURSIVE LeadingDigits(_, _)
LeadingDigits(s, acc) ==
    IF s # <<>> /\ IsDigit(Head(s))
    THEN LeadingDigits(Tail(s), 10 * acc + DigitVal(Head(s)))
    ELSE acc

\* parseInt(s, 10): leading white space, an optional sign, then the longest
\* prefix of decimal digits; NaN when there is none.
parseInt(s) ==
    LET t == SkipWhite(s)
        signed == t # <<>> /\ Head(t) \in {"+", "-"}
        u == IF signed THEN Tail(t) ELSE t
    IN  IF u = <<>> \/ ~IsDigit(Head(u)) THEN NaN
        ELSE IF signed /\ Head(t) = "-" THEN Number(0 - LeadingDigits(u, 0))
        ELSE Number(LeadingDigits(u, 0))

\* x || d for a number x: NaN and 0 are falsy.
OrElse_nanOnly(x, d) == IF x.nan THEN d ELSE x.n

OrElse(x, d) == IF x.nan \/ x.n = 0 THEN d ELSE x.n

Max(a, b) == IF a >= b THEN a ELSE b
Min(a, b) == IF a <= b THEN a ELSE b

Range(f) == {f[i] : i \in DOMAIN f}

\* Math.ceil(a / b) for a >= 0, b >= 1.
Ceil_floor(a, b) == a \div b

Ceil(a, b) == (a + b - 1) \div b

\* array.unshift(item): item becomes element 0.
unshift_push(array, item) == Append(array, item)

unshift(array, item) == <<item>> \o array

\* array.slice(start, end) for 0 <= start <= end.
slice(array, start, end) ==
    SubSeq(array, Min(start, Len(array)) + 1, Min(end, Len(array)))

\* String(n) for an integer n.
RECURSIVE NatString(_)
NatString(n) ==
    IF n < 10 THEN <<Digits[n + 1]>>
    ELSE NatString(n \div 10) \o <<Digits[(n % 10) + 1]>>

String(n) == IF n < 0 THEN <<"-">> \o NatString(0 - n) ELSE NatString(n)

----------------------------------------------------------------------------
\* paginate(array, page = 1, limit = 10).  The default parameter replaces
\* undefined only; parseInt then sees String(1) or String(10).

paginate(array, page, limit) ==
    LET p == Max(1, OrElse(parseInt(IF page.given THEN page.v ELSE String(1)), 1))
        l == Max(1, Min(100,
                 OrElse(parseInt(IF limit.given THEN limit.v ELSE String(10)), 10)))
        start == (p - 1) * l
    IN  [page |-> p,
         limit |-> l,
         total |-> Len(array),
         pages |-> Ceil(Len(array), l),
         data |-> slice(array, start, start + l)]

----------------------------------------------------------------------------
\* The document store.

\* new Date().toISOString(): a logical timestamp, the number of writes the
\* handlers have made so far.  No handler reads a stored timestamp.
Now == writes

\* The seed document.  (The literal in the source closes the likes object
\* with a bracket; the model takes the object the literal intends.)
getInitialData(now) ==
    [highlights |-> <<
        [id |-> "h1", title |-> "Destaque: Economia global em foco",
         summary |-> "Resumo do destaque.",
         image |-> "https://picsum.photos/seed/hl1/800/450",
         url |-> "https://exemplo.com/destaque-1",
         publishedAt |-> now, sourceId |-> Val("s1")] >>,
     news |-> <<
        [id |-> "n1",
         title |-> <<"M","e","r","c","a","d","o","s"," ","s","u","b","i","r",
                     "a","m"," ","h","o","j","e">>,
         summary |-> <<"R","e","s","u","m","o"," ","d","a"," ","n","o","t",
                       "í","c","i","a"," ","d","e"," ","m","e","r","c","a",
                       "d","o",".">>,
         url |-> "https://noticias.ex/n1",
         image |-> "https://picsum.photos/seed/n1/400/300",
         publishedAt |-> now, sourceId |-> Val("s1")],
        [id |-> "n2",
         title |-> <<"T","e","c","n","o","l","o","g","i","a",":"," ","n","o",
                     "v","a"," ","v","e","r","s","ã","o"," ","l","a","n","ç",
                     "a","d","a">>,
         summary |-> <<"R","e","s","u","m","o"," ","d","a"," ","n","o","t",
                       "í","c","i","a"," ","t","e","c","h",".">>,
         url |-> "https://noticias.ex/n2",
         image |-> "https://picsum.photos/seed/n2/400/300",
         publishedAt |-> now, sourceId |-> Val("s2")] >>,
     images |-> <<
        [id |-> "img1", title |-> <<"P","a","i","s","a","g","e","m">>,
         url |-> "https://picsum.photos/seed/img1/1200/800",
         thumb |-> "https://picsum.photos/seed/img1/400/300",
         sourceId |-> Val("s3")] >>,
     sources |-> <<
        [id |-> "s1", name |-> "Exemplo News", url |-> "https://noticias.ex"],
        [id |-> "s2", name |-> "TechToday", url |-> "https://techtoday.ex"],
        [id |-> "s3", name |-> "Pics", url |-> "https://picsum.photos"] >>,
     trending |-> <<
        [id |-> "t1", topic |-> "Economia", score |-> 92],
        [id |-> "t2", topic |-> "IA", score |-> 88] >>,
     likes |-> [articles |-> [n1 |-> Num(12), n2 |-> Num(5)],
                images |-> [img1 |-> Num(3)]],
     createdAt |-> now]

\* JSON.stringify keeps an object's own properties whose value JSON can
\* write; a function or undefined value is left out.  Every other value of
\* the document is a string, number, null, array or plain object.
JSONstringify(data) ==
    [data EXCEPT !.likes =
        [t \in DOMAIN data.likes |->
            LET tbl == data.likes[t]
                kept == {k \in DOMAIN tbl : IsNum(tbl[k]) \/ IsStr(tbl[k])}
            IN  [k \in kept |-> tbl[k]]]]

\* JSON.parse of a text JSON.stringify wrote: plain objects and arrays again.
JSONparse(text) == text

\* The file after readDB(): created with the seed when absent.
readDBFile(f, now) ==
    IF ~f.exists
    THEN [exists |-> TRUE, doc |-> JSONstringify(getInitialData(now))]
    ELSE f

\* The value readDB() returns.
readDB_seedOnly(f, now) == JSONparse(JSONstringify(getInitialData(now)))

readDB(f, now) == JSONparse(readDBFile(f, now).doc)

\* The file after writeDB(data).
writeDB(data) == [exists |-> TRUE, doc |-> JSONstringify(data)]

----------------------------------------------------------------------------
\* Inputs of the requests.

LikeTypes == {"article", "video"}
LikeIds == {"n1", "constructor", "__proto__"}
LikeKeys == LikeTypes \X LikeIds

TypeInputs == {undefined} \cup {Val(t) : t \in LikeTypes}
IdInputs == {undefined, Val("")} \cup {Val(i) : i \in LikeIds}

\* nanoid(6) and nanoid(8): any string of the alphabet may come back.
NanoIds6 == {"V1StGX", "Uakgb_"}
NanoIds8 == {"V1StGXR8", "Z5jdHi6B"}

QInputs == {undefined, Val(<<>>), Val(<<"T","E","C","H">>), Val(<<"p","a","i","s">>)}
PageInputs == {undefined, Val(<<"2">>)}
LimitInputs == {undefined, Val(<<"1">>)}
SourceInputs == {undefined, Val("s1")}
ArticleIdInputs == {"n1", "n2", "doesnotexist"} \cup {"n" \o r : r \in NanoIds6}

TitleInputs == {undefined, Val(<<"P","a","i","s"," ","t","e","c","h">>)}
SummaryInputs == {undefined, Val(<<"T","e","c","h","n","o">>)}
UrlInputs == {undefined, Val("http://y")}
MessageInputs == {undefined, Val(""), Val("hello")}
ContextInputs == {undefined, Val("home")}

----------------------------------------------------------------------------
\* Route handlers.  Each is the whole handler: validation, readDB, the
\* change, writeDB and the response.

Reply(route, req, status, body) ==
    [route |-> route, req |-> req, status |-> status, body |-> body]

NoHistory == UNCHANGED <<okLikes, okFeedback, created>>

\* return res.status(400).json({ error }) ahead of any readDB().
Reject_readsFirst(route, req, error) ==
    /\ resp' = Reply(route, req, 400, [error |-> error])
    /\ file' = readDBFile(file, Now)
    /\ UNCHANGED writes
    /\ NoHistory

Reject(route, req, error) ==
    /\ resp' = Reply(route, req, 400, [error |-> error])
    /\ UNCHANGED <<file, writes>>
    /\ NoHistory

\* x => (x.title && x.title.toLowerCase().includes(ql))
TitleMatches_caseSensitive(x, ql) == x.title # <<>> /\ includes(x.title, ql)

TitleMatches(x, ql) == x.title # <<>> /\ includes(toLowerCase(x.title), ql)

\* x => titleMatch || (x.summary && x.summary.toLowerCase().includes(ql))
TextMatches(x, ql) ==
    \/ TitleMatches(x, ql)
    \/ x.summary # <<>> /\ includes(toLowerCase(x.summary), ql)

\* array.filter(pred), with pred given as the set of items it accepts.
RECURSIVE filter(_, _)
filter(array, accepted) ==
    IF array = <<>> THEN <<>>
    ELSE IF Head(array) \in accepted
         THEN <<Head(array)>> \o filter(Tail(array), accepted)
         ELSE filter(Tail(array), accepted)

\* array.map(x => ({ type: tag, ...x })): the spread of x comes last, so an
\* own field of x named type would win; no stored item has one.
Tagged(array, tag) ==
    [i \in 1..Len(array) |->
        [f \in DOMAIN array[i] \cup {"type"} |->
            IF f \in DOMAIN array[i] THEN array[i][f] ELSE tag]]

\* GET /api/v1/health
Health ==
    /\ resp' = Reply("health", <<>>, 200, [status |-> "ok", time |-> Now])
    /\ UNCHANGED <<file, writes>>
    /\ NoHistory

\* GET /api/v1/highlights, /sources, /trending
Listing(route) ==
    LET db == readDB(file, Now)
    IN  /\ file' = readDBFile(file, Now)
        /\ resp' = Reply(route, <<>>, 200, [items |-> db[route]])
        /\ UNCHANGED writes
        /\ NoHistory

\* GET /api/v1/news
News(q, page, limit, source) ==
    LET db == readDB(file, Now)
        items0 == db.news
        items1 == IF Falsy(source) THEN items0
                  ELSE filter(items0, {x \in Range(items0) : x.sourceId = source})
        items2 == IF FalsySeq(q) THEN items1
                  ELSE filter(items1,
                         {x \in Range(items1) : TextMatches(x, toLowerCase(q.v))})
    IN  /\ file' = readDBFile(file, Now)
        /\ resp' = Reply("news",
                         [q |-> q, page |-> page, limit |-> limit, source |-> source],
                         200, paginate(items2, page, limit))
        /\ UNCHANGED writes
        /\ NoHistory

\* db.likes.articles[id] || 0
ArticleLikes_noDefault(db, id) == Get(db.likes.articles, id)

ArticleLikes(db, id) ==
    LET v == Get(db.likes.articles, id)
    IN  IF Truthy(v) THEN v ELSE Num(0)

\* GET /api/v1/news/:id
NewsById(id) ==
    LET db == readDB(file, Now)
        found == {i \in 1..Len(db.news) : db.news[i].id = id}
        item == db.news[CHOOSE i \in found : \A j \in found : i <= j]
        likes == ArticleLikes(db, item.id)
    IN  /\ file' = readDBFile(file, Now)
        /\ resp' = IF found = {}
                   THEN Reply("news/:id", [id |-> id], 404, [error |-> "Not found"])
                   ELSE Reply("news/:id", [id |-> id], 200,
                              [item |-> item, likes |-> likes])
        /\ UNCHANGED writes
        /\ NoHistory

\* GET /api/v1/images
Images(q, page, limit) ==
    LET db == readDB(file, Now)
        items0 == db.images
        items1 == IF FalsySeq(q) THEN items0
                  ELSE filter(items0,
                         {x \in Range(items0) : TitleMatches(x, toLowerCase(q.v))})
    IN  /\ file' = readDBFile(file, Now)
        /\ resp' = Reply("images", [q |-> q, page |-> page, limit |-> limit],
                         200, paginate(items1, page, limit))
        /\ UNCHANGED writes
        /\ NoHistory

\* The combined list GET /search paginates.
SearchCombined(db, ql) ==
    LET news == Tagged(filter(db.news,
                    {n \in Range(db.news) : TextMatches(n, ql)}), "news")
        images == Tagged(filter(db.images,
                    {i \in Range(db.images) : TitleMatches(i, ql)}), "image")
    IN  news \o images

\* GET /api/v1/search
Search(q, page, limit) ==
    LET req == [q |-> q, page |-> page, limit |-> limit]
    IN  IF FalsySeq(q)
        THEN Reject("search", req, "q parameter required")
        ELSE LET db == readDB(file, Now)
                 combined == SearchCombined(db, toLowerCase(q.v))
             IN  /\ file' = readDBFile(file, Now)
                 /\ resp' = Reply("search", req, 200, paginate(combined, page, limit))
                 /\ UNCHANGED writes
                 /\ NoHistory

\* POST /api/v1/like.  type + 's' names the counter table; no property
\* inherited from Object.prototype has a name ending in s, so db.likes[...]
\* is an own table or undefined.
Like(type, id) ==
    LET req == [type |-> type, id |-> id]
    IN  IF Falsy(type) \/ Falsy(id)
        THEN Reject("like", req, "type and id required")
        ELSE LET db == readDB(file, Now)
                 key == type.v \o "s"
                 table == IF key \in DOMAIN db.likes THEN db.likes[key] ELSE <<>>
                 cur == Get(table, id.v)
                 table1 == Put(table, id.v,
                               PlusOne(IF Truthy(cur) THEN cur ELSE Num(0)))
                 db1 == [db EXCEPT !.likes = Put(db.likes, key, table1)]
             IN  /\ writes < MaxWrites
                 /\ file' = writeDB(db1)
                 /\ writes' = writes + 1
                 /\ resp' = Reply("like", req, 200,
                                  [id |-> id.v, type |-> type.v,
                                   likes |-> Get(table1, id.v)])
                 /\ okLikes' = [okLikes EXCEPT ![<<type.v, id.v>>] = @ + 1]
                 /\ UNCHANGED <<okFeedback, created>>

\* POST /api/v1/feedback; r is what nanoid(8) returns.
Feedback(message, context, r) ==
    LET req == [message |-> message, context |-> context]
    IN  IF Falsy(message)
        THEN Reject("feedback", req, "message required")
        ELSE LET db == readDB(file, Now)
                 old == IF "feedback" \in DOMAIN db THEN db.feedback ELSE <<>>
                 entry == [id |-> r, message |-> message.v,
                           context |-> IF Falsy(context) THEN null ELSE context,
                           createdAt |-> Now]
                 db1 == [f \in DOMAIN db \cup {"feedback"} |->
                            IF f = "feedback" THEN Append(old, entry) ELSE db[f]]
             IN  /\ writes < MaxWrites
                 /\ file' = writeDB(db1)
                 /\ writes' = writes + 1
                 /\ resp' = Reply("feedback", req, 200, [status |-> "ok"])
                 /\ okFeedback' = okFeedback + 1
                 /\ UNCHANGED <<okLikes, created>>

\* POST /api/v1/admin/news; r is what nanoid(6) returns.
AdminNews(title, summary, url, image, sourceId, r) ==
    LET req == [title |-> title, summary |-> summary, url |-> url,
                image |-> image, sourceId |-> sourceId]
    IN  IF FalsySeq(title) \/ Falsy(url)
        THEN Reject("admin/news", req, "title and url required")
        ELSE LET db == readDB(file, Now)
                 item == [id |-> "n" \o r,
                          title |-> title.v,
                          summary |-> IF FalsySeq(summary) THEN <<>> ELSE summary.v,
                          url |-> url.v,
                          image |-> IF Falsy(image) THEN "" ELSE image.v,
                          publishedAt |-> Now,
                          sourceId |-> IF Falsy(sourceId) THEN null ELSE sourceId]
                 db1 == [db EXCEPT !.news = unshift(db.news, item)]
             IN  /\ writes < MaxWrites
                 /\ file' = writeDB(db1)
                 /\ writes' = writes + 1
                 /\ resp' = Reply("admin/news", req, 200, [created |-> item])
                 /\ created' = Append(created, item)
                 /\ UNCHANGED <<okLikes, okFeedback>>

\* app.use fallback: any other path.
Fallback ==
    /\ resp' = Reply("fallback", <<>>, 404, [error |-> "not found"])
    /\ UNCHANGED <<file, writes>>
    /\ NoHistory

----------------------------------------------------------------------------
\* The server handling one request after another.

NoReply == Reply("none", <<>>, 0, <<>>)

Init ==
    /\ file = [exists |-> FALSE]
    /\ resp = NoReply
    /\ writes = 0
    /\ okLikes = [k \in LikeKeys |-> 0]
    /\ okFeedback = 0
    /\ created = <<>>
    /\ pending = EmptyBag
    /\ overlapped = {}

\* A handler starts once the previous response has left; nothing is in flight.
Idle == resp = NoReply /\ UNCHANGED <<pending, overlapped>>

\* res.json(...) has been written to the client.
Sent ==
    /\ resp # NoReply
    /\ resp' = NoReply
    /\ UNCHANGED <<file, writes, okLikes, okFeedback, created, pending, overlapped>>

GetHealth == Idle /\ Health
GetHighlights == Idle /\ Listing("highlights")
GetSources == Idle /\ Listing("sources")
GetTrending == Idle /\ Listing("trending")
GetNews ==
    /\ Idle
    /\ \E q \in QInputs, page \in PageInputs,
          limit \in LimitInputs, source \in SourceInputs :
            News(q, page, limit, source)
GetNewsById == Idle /\ \E id \in ArticleIdInputs : NewsById(id)
GetImages ==
    /\ Idle
    /\ \E q \in QInputs, page \in PageInputs, limit \in LimitInputs :
            Images(q, page, limit)
GetSearch ==
    /\ Idle
    /\ \E q \in QInputs, page \in PageInputs, limit \in LimitInputs :
            Search(q, page, limit)
PostLike == Idle /\ \E type \in TypeInputs, id \in IdInputs : Like(type, id)
PostFeedback ==
    /\ Idle
    /\ \E message \in MessageInputs, context \in ContextInputs, r \in NanoIds8 :
            Feedback(message, context, r)
PostAdminNews ==
    /\ Idle
    /\ \E title \in TitleInputs, summary \in SummaryInputs, url \in UrlInputs,
          r \in NanoIds6 :
            AdminNews(title, summary, url, undefined, undefined, r)
AnyOtherPath == Idle /\ Fallback

Next ==
    \/ GetHealth \/ GetHighlights \/ GetSources \/ GetTrending
    \/ GetNews \/ GetNewsById \/ GetImages \/ GetSearch
    \/ PostLike \/ PostFeedback \/ PostAdminNews
    \/ AnyOtherPath
    \/ Sent

Spec == Init /\ [][Next]_vars

----------------------------------------------------------------------------
\* paginate on its own: any list, any page and limit text.

Items(n) == [i \in 1..n |-> i]
ItemCounts == 0..MaxItems \cup {205}

Affixed(k) ==
    {pre \o String(k) \o suf :
        pre \in {<<>>, <<" ">>}, suf \in {<<>>, <<"x">>, <<".", "5">>}}
NoInteger == {<<>>, <<"a","b","c">>, <<"x","7">>, <<"-">>, <<".","5">>}

PageSamples == {0 - 7, 0, 1, 2}
LimitSamples == {0 - 3, 0, 7, 100, 101, 500}

PaginatePages ==
    {undefined} \cup {Val(String(p)) : p \in 1..MaxPage}
    \cup {Val(t) : t \in NoInteger}
    \cup {Val(t) : t \in UNION {Affixed(k) : k \in PageSamples}}
PaginateLimits ==
    {undefined} \cup {Val(String(l)) : l \in 1..100}
    \cup {Val(t) : t \in NoInteger}
    \cup {Val(t) : t \in UNION {Affixed(k) : k \in LimitSamples}}

PaginateCall ==
    /\ Idle
    /\ UNCHANGED <<file, writes>>
    /\ NoHistory
    /\ \E n \in ItemCounts, page \in PaginatePages, limit \in PaginateLimits :
        resp' = Reply("paginate",
                         [items |-> Items(n), page |-> page, limit |-> limit],
                         200, paginate(Items(n), page, limit))

NextPaginate == PaginateCall \/ Sent

SpecPaginate == Init /\ [][NextPaginate]_vars

----------------------------------------------------------------------------
\* C5: for every list, every integer page >= 1 and every integer limit in
\* 1..100, paginate returns page and limit unchanged, total = the length of
\* the list, pages = ceil(total / limit), and data = the contiguous slice
\* items[(page-1)*limit : page*limit], of length
\* max(0, min(limit, total - (page-1)*limit)).
C5_PaginateInRange ==
    resp.route = "paginate" =>
        \A p \in 1..MaxPage :
            resp.req.page = Val(String(p)) =>
                \A l \in 1..100 :
                    resp.req.limit = Val(String(l)) =>
                        LET items == resp.req.items
                            total == Len(items)
                            r == resp.body
                        IN  /\ r.page = p
                            /\ r.limit = l
                            /\ r.total = total
                            /\ r.pages * l >= total
                            /\ (r.pages - 1) * l < total \/ (total = 0 /\ r.pages = 0)
                            /\ Len(r.data) = Max(0, Min(l, total - (p - 1) * l))
                            /\ \A i \in 1..Len(r.data) :
                                   r.data[i] = items[(p - 1) * l + i]

\* C5 witness: page 3 of 205 items at limit 100 is the last, partial page.
C5_Witness ==
    /\ resp.route = "paginate"
    /\ resp.req.page = Val(<<"3">>)
    /\ resp.req.limit = Val(<<"1","0","0">>)
    /\ resp.body.pages = 3
    /\ Len(resp.body.data) = 5
    /\ resp.body.data[1] = 201

\* The page (limit) paginate is meant to use for a text whose leading
\* integer is k.
ClampedPage(k) == IF k < 1 THEN 1 ELSE k
ClampedLimit(k) == IF k = 0 THEN 10 ELSE IF k < 0 THEN 1 ELSE IF k > 100 THEN 100 ELSE k

\* C6 (as claimed): a page or limit that is out of range or has no number in
\* it gives the default for that parameter: page 1, limit 10.
C6_BadInputGivesDefault ==
    resp.route = "paginate" =>
        /\ (resp.req.page \in {Val(t) : t \in NoInteger}
                \cup {Val(String(k)) : k \in {j \in PageSamples : j < 1}})
            => resp.body.page = 1
        /\ (resp.req.limit \in {Val(t) : t \in NoInteger}
                \cup {Val(String(k)) : k \in {j \in LimitSamples : j < 1 \/ j > 100}})
            => resp.body.limit = 10

\* C6 (amended): paginate never fails.  A missing page, a page with no
\* leading integer or with one below 1 gives page 1.  A missing limit, a
\* limit with no leading integer or with leading integer 0 gives limit 10;
\* a negative limit gives 1 and a limit above 100 gives 100.  Text after the
\* leading integer (and white space before it) is ignored.
C6_ClampOrDefault ==
    resp.route = "paginate" =>
        LET r == resp.body
        IN  /\ DOMAIN r = {"page", "limit", "total", "pages", "data"}
            /\ r.page >= 1 /\ r.limit \in 1..100 /\ Len(r.data) <= r.limit
            /\ resp.req.page \in {undefined} \cup {Val(t) : t \in NoInteger}
                => r.page = 1
            /\ resp.req.limit \in {undefined} \cup {Val(t) : t \in NoInteger}
                => r.limit = 10
            /\ \A k \in PageSamples :
                resp.req.page \in {Val(t) : t \in Affixed(k)}
                    => r.page = ClampedPage(k)
            /\ \A k \in LimitSamples :
                resp.req.limit \in {Val(t) : t \in Affixed(k)}
                    => r.limit = ClampedLimit(k)

\* C6 witness: limit 500 is answered with limit 100 and page -7 with page 1.
C6_Witness ==
    /\ resp.route = "paginate"
    /\ resp.req.limit = Val(<<"5","0","0">>)
    /\ resp.req.page = Val(<<"-","7">>)
    /\ resp.body.limit = 100
    /\ resp.body.page = 1

----------------------------------------------------------------------------
\* What the claims speak about.

\* The own counter entry of <<type, id>> in document db, 0 when absent.
Counter(db, type, id) ==
    IF (type \o "s") \in DOMAIN db.likes /\ id \in DOMAIN db.likes[type \o "s"]
    THEN db.likes[type \o "s"][id]
    ELSE Num(0)

\* The document a load() finds in the current state: the one on file, or
\* the seed a first access would write.
Loaded == IF file.exists THEN file.doc ELSE getInitialData(Now)

SeedCount(type, id) == Counter(getInitialData(0), type, id).num

\* A handler has just answered: the step from no response to a response.
Answers(route) == resp = NoReply /\ resp'.route = route

Last(seq) == seq[Len(seq)]
Reverse(seq) == [i \in 1..Len(seq) |-> seq[Len(seq) + 1 - i]]

\* C1: the persisted like counter of every (type, id) is its seed value plus
\* the number of successful POST /like for it, a load() reads that value,
\* and each successful POST /like returns it as the new count.
C1_LikesCounted ==
    \A k \in LikeKeys :
        /\ Counter(Loaded, k[1], k[2]) = Num(SeedCount(k[1], k[2]) + okLikes[k])
        /\ (resp.route = "like" /\ resp.status = 200
                /\ resp.req.type.v = k[1] /\ resp.req.id.v = k[2])
            => resp.body.likes = Num(SeedCount(k[1], k[2]) + okLikes[k])

\* C2: a write request with a required field missing is answered 400, and a
\* request answered 400 changes nothing: the file (even an absent one) and
\* every counter, feedback entry and article stay as they were.
RequiredMissing(r) ==
    \/ r.route = "like" /\ {r.req.type, r.req.id} \cap {undefined, Val("")} # {}
    \/ r.route = "feedback" /\ r.req.message \in {undefined, Val("")}
    \/ r.route = "admin/news"
        /\ (r.req.title \in {undefined, Val(<<>>)} \/ r.req.url \in {undefined, Val("")})

C2_RejectedWriteChangesNothing ==
    [][(resp = NoReply /\ resp'.route \in {"like", "feedback", "admin/news"}) =>
        /\ RequiredMissing(resp') <=> resp'.status = 400
        /\ resp'.status = 400 => file' = file /\ writes' = writes]_vars

\* C2 witness: POST /feedback without a message answered 400 while the file
\* holds a document with a changed counter and no feedback.
C2_Witness ==
    /\ resp.route = "feedback" /\ resp.status = 400
    /\ ~resp.req.message.given
    /\ file.exists /\ writes > 0
    /\ "feedback" \notin DOMAIN file.doc

\* C3: every successful POST /admin/news puts its article at position 0 and
\* keeps the stored articles behind it in their order, so news is the
\* created articles, newest first, followed by the seed articles; and an
\* unfiltered GET /news page 1 returns the newest article first.
C3_NewestFirst ==
    /\ file.exists =>
        file.doc.news = Reverse(created) \o getInitialData(file.doc.createdAt).news
    /\ (resp.route = "admin/news" /\ resp.status = 200) =>
        /\ file.doc.news[1] = resp.body.created
        /\ Last(created) = resp.body.created
    /\ (resp.route = "news" /\ FalsySeq(resp.req.q) /\ Falsy(resp.req.source)
            /\ resp.body.page = 1 /\ created # <<>>)
        => resp.body.data[1] = Last(created)

\* C3 witness: two different articles were created and GET /news shows the
\* second one first.
C3_Witness ==
    /\ Len(created) = 2 /\ created[1] # created[2]
    /\ resp.route = "news" /\ FalsySeq(resp.req.q) /\ Falsy(resp.req.source)
    /\ resp.body.page = 1
    /\ resp.body.data[1] = created[2]
    /\ file.doc.news[2] = created[1]

\* C4: no two articles share an id and no two feedback entries share an id.
Distinct(seq) == \A i, j \in 1..Len(seq) : i # j => seq[i].id # seq[j].id

C4_IdsUnique ==
    file.exists =>
        /\ Distinct(file.doc.news)
        /\ "feedback" \in DOMAIN file.doc => Distinct(file.doc.feedback)

\* text contains q, ignoring the case of both.
ContainsIgnoringCase(text, q) ==
    \E i \in 0..(Len(text) - Len(q)) :
        \A j \in 1..Len(q) : LowerChar(text[i + j]) = LowerChar(q[j])

\* The k-th smallest element of a set of positions.
Kth(positions, k) ==
    CHOOSE i \in positions : Cardinality({j \in positions : j < i}) = k - 1

Untagged(x) == [f \in DOMAIN x \ {"type"} |-> x[f]]

\* C7: GET /search with a non-empty q paginates the list of the articles
\* whose title or summary contains q ignoring case, tagged news and in
\* stored order, followed by the images whose title contains q ignoring
\* case, tagged image and in stored order; total is the number of hits.
\* With q missing it answers 400 and does not touch the store.
SearchAnswerIs(db, q, r, newsHits, imageHits, combined) ==
    LET m == Cardinality(newsHits)
        n == Cardinality(imageHits)
    IN  /\ Len(combined) = m + n
        /\ \A k \in 1..m :
              /\ combined[k].type = "news"
              /\ Untagged(combined[k]) = db.news[Kth(newsHits, k)]
        /\ \A k \in 1..n :
              /\ combined[m + k].type = "image"
              /\ Untagged(combined[m + k]) = db.images[Kth(imageHits, k)]
        /\ r.total = m + n
        /\ \A i \in 1..Len(r.data) :
              r.data[i] = combined[(r.page - 1) * r.limit + i]
        /\ Len(r.data) = Max(0, Min(r.limit, r.total - (r.page - 1) * r.limit))

C7_SearchNewsThenImages ==
    [][Answers("search") =>
        IF FalsySeq(resp'.req.q)
        THEN resp'.status = 400 /\ file' = file
        ELSE /\ resp'.status = 200
             /\ file'.exists
             /\ \A db \in {file'.doc} : \A q \in {resp'.req.q.v} :
                \A newsHits \in {{i \in 1..Len(db.news) :
                                    \/ ContainsIgnoringCase(db.news[i].title, q)
                                    \/ ContainsIgnoringCase(db.news[i].summary, q)}} :
                \A imageHits \in {{i \in 1..Len(db.images) :
                                    ContainsIgnoringCase(db.images[i].title, q)}} :
                \A combined \in {SearchCombined(db, toLowerCase(q))} :
                    SearchAnswerIs(db, q, resp'.body, newsHits, imageHits, combined)
    ]_vars

\* C7 witness: q = "pais" finds a created article by its capitalised title
\* and the seed image; the article comes first.
C7_Witness ==
    /\ resp.route = "search" /\ resp.status = 200
    /\ resp.req.q = Val(<<"p","a","i","s">>)
    /\ resp.body.total >= 2
    /\ Len(resp.body.data) >= 2
    /\ resp.body.data[1].type = "news"
    /\ resp.body.data[resp.body.total].type = "image"

\* C8: GET /news/:id answers 404 {error: 'Not found'} exactly when no stored
\* article has the id; otherwise it returns the stored article and likes =
\* its persisted article counter (0 without one), which is the seed value
\* plus the successful likes of that article.  It leaves the document as it
\* was.
C8_ArticleWithLikes ==
    [][Answers("news/:id") =>
        LET db == Loaded
            id == resp'.req.id
            stored == {i \in 1..Len(db.news) : db.news[i].id = id}
        IN  /\ resp'.status = 404 <=> stored = {}
            /\ resp'.status = 404 => resp'.body = [error |-> "Not found"]
            /\ resp'.status # 404 =>
                /\ resp'.status = 200
                /\ \E i \in stored : resp'.body.item = db.news[i]
                /\ resp'.body.likes = Counter(db, "article", id)
                /\ resp'.body.likes =
                      Num(SeedCount("article", id)
                          + IF <<"article", id>> \in LikeKeys
                            THEN okLikes[<<"article", id>>] ELSE 0)
            /\ file.exists => file' = file
            /\ file'.exists /\ file'.doc = db
    ]_vars

\* C8 witness: article n1 after two likes is returned with likes 14.
C8_Witness ==
    /\ resp.route = "news/:id" /\ resp.status = 200
    /\ resp.req.id = "n1"
    /\ okLikes[<<"article", "n1">>] = 2
    /\ resp.body.likes = Num(14)

\* Every field of the document except f is the same in old and new.
OtherFieldsSame(old, new, f) ==
    /\ DOMAIN new \ {f} = DOMAIN old \ {f}
    /\ \A g \in DOMAIN old \ {f} : new[g] = old[g]

\* Counter tables old and new differ at most in the entry <<key, id>>.
OnlyCounterChanged(old, new, key, id) ==
    /\ \A t \in DOMAIN old : t \in DOMAIN new /\ DOMAIN old[t] \subseteq DOMAIN new[t]
    /\ \A t \in DOMAIN new : \A k \in DOMAIN new[t] :
          <<t, k>> # <<key, id>> =>
              t \in DOMAIN old /\ k \in DOMAIN old[t] /\ new[t][k] = old[t][k]

FeedbackOf(db) == IF "feedback" \in DOMAIN db THEN db.feedback ELSE <<>>

\* C10: the file is created with the seed by the first store access and is
\* never removed.  A GET and a request answered 400 or 404 leave an existing
\* document unchanged.  A successful POST /like changes only the counter
\* entry of its (type, id); a successful POST /feedback only appends one
\* feedback entry; a successful POST /admin/news only adds one article.
C10_Frame ==
    [][LET old == Loaded
           new == file'.doc
           ok(route) == Answers(route) /\ resp'.status = 200
       IN  /\ file.exists => file'.exists
           /\ (~file.exists /\ file'.exists /\ writes' = writes)
                => new = getInitialData(Now)
           /\ writes' = writes => (file.exists => file' = file)
           /\ writes' # writes => ok("like") \/ ok("feedback") \/ ok("admin/news")
           /\ (resp = NoReply /\ resp'.status \in {400, 404}) => writes' = writes
           /\ (resp = NoReply /\ resp'.route \in {"health", "highlights", "sources",
                    "trending", "news", "news/:id", "images", "search", "fallback"})
                => writes' = writes
           /\ ok("like") =>
                /\ OtherFieldsSame(old, new, "likes")
                /\ OnlyCounterChanged(old.likes, new.likes,
                                      resp'.req.type.v \o "s", resp'.req.id.v)
           /\ ok("feedback") =>
                /\ OtherFieldsSame(old, new, "feedback")
                /\ Len(new.feedback) = Len(FeedbackOf(old)) + 1
                /\ SubSeq(new.feedback, 1, Len(FeedbackOf(old))) = FeedbackOf(old)
           /\ ok("admin/news") =>
                /\ OtherFieldsSame(old, new, "news")
                /\ Len(new.news) = Len(old.news) + 1
                /\ Tail(new.news) = old.news
    ]_vars

\* C10 witness: a like answered on a document that already holds a feedback
\* entry, with the seed counters still in place.
C10_Witness ==
    /\ resp.route = "like" /\ resp.status = 200
    /\ resp.req.id.v = "n1" /\ resp.req.type.v = "article"
    /\ file.exists /\ "feedback" \in DOMAIN file.doc
    /\ Len(file.doc.feedback) = 1
    /\ file.doc.likes.articles["n2"] = Num(5)
    /\ file.doc.likes.articles["n1"] = Num(13)

----------------------------------------------------------------------------
\* Requests in flight together.  express.json() reads a request body
\* asynchronously, so several requests can be waiting for their handler; the
\* event loop then runs the handlers one at a time, each to completion.

ConcRequests ==
    {[route |-> "like", type |-> Val("article"), id |-> Val("n1")],
     [route |-> "like", type |-> Val("video"), id |-> Val("n1")],
     [route |-> "feedback", message |-> Val("hello"), context |-> undefined],
     [route |-> "admin/news",
      title |-> Val(<<"P","a","i","s"," ","t","e","c","h">>), url |-> Val("http://y")]}

InFlight == BagCardinality(pending)

\* A request arrives while others may be waiting.
Receive ==
    /\ InFlight < MaxPending
    /\ writes + InFlight < MaxWrites
    /\ \E r \in ConcRequests :
        /\ pending' = pending (+) SetToBag({r})
        /\ overlapped' = IF r.route = "like" /\ BagIn(r, pending)
                         THEN overlapped \cup {<<r.type.v, r.id.v>>}
                         ELSE overlapped
    /\ UNCHANGED <<file, resp, writes, okLikes, okFeedback, created>>

\* The event loop runs the handler of one waiting request.
Deliver ==
    /\ resp = NoReply
    /\ UNCHANGED overlapped
    /\ \E r \in BagToSet(pending) :
        /\ pending' = pending (-) SetToBag({r})
        /\ \/ r.route = "like" /\ Like(r.type, r.id)
           \/ r.route = "feedback"
              /\ \E n \in NanoIds8 : Feedback(r.message, r.context, n)
           \/ r.route = "admin/news"
              /\ \E n \in NanoIds6 :
                    AdminNews(r.title, undefined, r.url, undefined, undefined, n)

NextConc == Receive \/ Deliver \/ Sent

SpecConc == Init /\ [][NextConc]_vars

\* C9 (as claimed, on its example): two POST /like for article n1 that were
\* in flight together and both answered success have raised the persisted
\* counter by only 1.
C9_ConcurrentLikesLoseOne ==
    (<<"article", "n1">> \in overlapped /\ okLikes[<<"article", "n1">>] = 2)
        => Counter(Loaded, "article", "n1") = Num(SeedCount("article", "n1") + 1)

\* C9 (amended): requests in flight together are handled one whole handler
\* at a time, so no acknowledged write is lost: feedback holds one entry per
\* successful POST /feedback, news one article per successful POST
\* /admin/news, and the counter of an (type, id) whose id is not a property
\* name inherited from Object.prototype has risen by the number of
\* successful POST /like for it, the last of which returned that count.
C9_NoLostWrite ==
    /\ Len(FeedbackOf(Loaded)) = okFeedback
    /\ Len(Loaded.news) = Len(getInitialData(0).news) + Len(created)
    /\ \A k \in LikeKeys :
        k[2] \notin ProtoKeys =>
            /\ Counter(Loaded, k[1], k[2]) = Num(SeedCount(k[1], k[2]) + okLikes[k])
            /\ (resp.route = "like" /\ resp.status = 200
                    /\ resp.req.type.v = k[1] /\ resp.req.id.v = k[2])
                => resp.body.likes = Num(SeedCount(k[1], k[2]) + okLikes[k])

\* C9 witness: two likes of article n1 were in flight together, both were
\* answered, and the counter stands at 14.
C9_Witness ==
    /\ <<"article", "n1">> \in overlapped
    /\ okLikes[<<"article", "n1">>] = 2
    /\ pending = EmptyBag
    /\ file.doc.likes.articles["n1"] = Num(14)
    /\ resp.route = "like" /\ resp.body.likes = Num(14)

====
